---- MODULE Spec2Model ----
(***************************************************************************)
(* State-machine model of the vLLM load-balancing gateway                  *)
(* (src/src/handler.py, src/src/models.py, src/src/utils.py).              *)
(*                                                                         *)
(* The event loop runs one coroutine at a time, so a handler is atomic     *)
(* between two awaits: every action below is one such segment.  Floating   *)
(* point request fields are kept in tenths (temperature 0.7 is 7).         *)
(* The ASGI application object answers an HTTP request in any lifecycle    *)
(* state (before startup, after a failed startup, after shutdown): the     *)
(* handlers only look at the two globals engine and engine_ready.          *)
(***************************************************************************)
EXTENDS Integers, Sequences, FiniteSets, TLC

\* ------------------------------------------------------------------ bounds
\* largest number of units an engine job produces
MaxUnits == 2

\* the requests: two clients, each sends one request, on either route and at
\* any time, so the two are in flight together in every possible way
Reqs == {1, 2}

\* ---------------------------------------------------------- plain values
None == "None"
Engine == "AsyncLLMEngine"
\* request_id value of an envelope built without one (request_id: None)
NoId == 0
\* a handler that holds no results iterator
NoJob == NoId
\* a text is a sequence of pieces: words and runs of whitespace
Whitespace == {" ", "\n\n"}

\* ------------------------------------------------------- models.py fields
\* Field(ge=.., le=..) constraints, floats in tenths
MaxTokensMin == 1
MaxTokensMax == 4096
TemperatureMin == 0
TemperatureMax == 20
TopPMin == 0
TopPMax == 10
TopKMin == -1
PenaltyMin == -20
PenaltyMax == 20

\* GenerationRequest validation that lost the ge=1 of max_tokens
GenerationRequestValid_NoMaxTokensFloor(b) ==
    /\ b.max_tokens <= MaxTokensMax
    /\ b.temperature >= TemperatureMin /\ b.temperature <= TemperatureMax
    /\ b.top_p >= TopPMin /\ b.top_p <= TopPMax
    /\ b.top_k >= TopKMin
    /\ b.frequency_penalty >= PenaltyMin /\ b.frequency_penalty <= PenaltyMax
    /\ b.presence_penalty >= PenaltyMin /\ b.presence_penalty <= PenaltyMax

\* GenerationRequest validation (pydantic, before the handler body runs)
GenerationRequestValid(b) ==
    /\ b.max_tokens >= MaxTokensMin /\ b.max_tokens <= MaxTokensMax
    /\ b.temperature >= TemperatureMin /\ b.temperature <= TemperatureMax
    /\ b.top_p >= TopPMin /\ b.top_p <= TopPMax
    /\ b.top_k >= TopKMin
    /\ b.frequency_penalty >= PenaltyMin /\ b.frequency_penalty <= PenaltyMax
    /\ b.presence_penalty >= PenaltyMin /\ b.presence_penalty <= PenaltyMax

\* ChatCompletionRequest validation; an empty messages list is a valid List
ChatCompletionRequestValid(b) ==
    /\ b.max_tokens >= MaxTokensMin /\ b.max_tokens <= MaxTokensMax
    /\ b.temperature >= TemperatureMin /\ b.temperature <= TemperatureMax
    /\ b.top_p >= TopPMin /\ b.top_p <= TopPMax

\* ---------------------------------------------------------- request inputs
Prompts == { <<"hello">>, <<"tell", " ", "me">> }

\* the field defaults of GenerationRequest
DefaultSampling ==
    [max_tokens |-> 512, temperature |-> 7, top_p |-> 9, top_k |-> -1,
     frequency_penalty |-> 0, presence_penalty |-> 0]

\* every field at the low end and at the high end of its range
LowSampling ==
    [max_tokens |-> 1, temperature |-> 0, top_p |-> 0, top_k |-> -1,
     frequency_penalty |-> -20, presence_penalty |-> -20]
HighSampling ==
    [max_tokens |-> 4096, temperature |-> 20, top_p |-> 10, top_k |-> 50,
     frequency_penalty |-> 20, presence_penalty |-> 20]

\* one field just outside its range, the others at their defaults
OutOfRangeSampling ==
    { [DefaultSampling EXCEPT !.max_tokens = 0],
      [DefaultSampling EXCEPT !.max_tokens = 4097],
      [DefaultSampling EXCEPT !.temperature = 25],
      [DefaultSampling EXCEPT !.temperature = -1],
      [DefaultSampling EXCEPT !.top_p = 15],
      [DefaultSampling EXCEPT !.top_p = -1],
      [DefaultSampling EXCEPT !.top_k = -2],
      [DefaultSampling EXCEPT !.frequency_penalty = 21],
      [DefaultSampling EXCEPT !.frequency_penalty = -21],
      [DefaultSampling EXCEPT !.presence_penalty = 21],
      [DefaultSampling EXCEPT !.presence_penalty = -21] }

GenerationRequest(p, s, st) ==
    [prompt |-> p, max_tokens |-> s.max_tokens, temperature |-> s.temperature,
     top_p |-> s.top_p, top_k |-> s.top_k,
     frequency_penalty |-> s.frequency_penalty,
     presence_penalty |-> s.presence_penalty, stream |-> st]

\* request bodies sent to /v1/completions: each prompt with in-range fields,
\* streamed and buffered, and bodies with one field out of range
GenerationRequests ==
    { GenerationRequest(<<"hello">>, LowSampling, st) : st \in BOOLEAN }
    \cup { GenerationRequest(<<"tell", " ", "me">>, HighSampling, st) :
                st \in BOOLEAN }
    \cup { GenerationRequest(<<"hello">>, s, FALSE) : s \in OutOfRangeSampling }

UserHi == << [role |-> "user", content |-> <<"hi">>] >>
SystemUserHi ==
    << [role |-> "system", content |-> <<"be", " ", "brief">>],
       [role |-> "user", content |-> <<"hi">>] >>

ChatCompletionRequest(m, s, st) ==
    [messages |-> m, max_tokens |-> s.max_tokens,
     temperature |-> s.temperature, top_p |-> s.top_p, stream |-> st]

\* request bodies sent to /v1/chat/completions
ChatCompletionRequests ==
    { ChatCompletionRequest(<< >>, DefaultSampling, FALSE),
      ChatCompletionRequest(UserHi, LowSampling, FALSE),
      ChatCompletionRequest(SystemUserHi, HighSampling, TRUE) }
    \cup { ChatCompletionRequest(UserHi, s, FALSE) : s \in OutOfRangeSampling }

\* what loading the tokenizer of MODEL_NAME gives: a tokenizer with a chat
\* template method, one without it, or a failure to load
Tokenizers == {"template", "plain", "unavailable"}

\* ------------------------------------------------------------- utils.py
\* create_error_response that does not pass its request_id on
create_error_response_NoId(error, detail, request_id) ==
    [error |-> error, detail |-> detail, request_id |-> NoId]

\* create_error_response(error, detail, request_id) and its model_dump()
create_error_response(error, detail, request_id) ==
    [error |-> error, detail |-> detail, request_id |-> request_id]

\* the fallback loop of format_chat_prompt over messages[i..]
RECURSIVE FallbackPrompt(_, _)
FallbackPrompt(messages, i) ==
    IF i > Len(messages) THEN << >>
    ELSE LET m == messages[i]
             label == CASE m.role = "system" -> <<"System:", " ">>
                        [] m.role = "user" -> <<"Human:", " ">>
                        [] m.role = "assistant" -> <<"Assistant:", " ">>
                        [] OTHER -> << >>
             part == IF m.role \in {"system", "user", "assistant"}
                     THEN label \o m.content \o <<"\n\n">>
                     ELSE << >>
         IN part \o FallbackPrompt(messages, i + 1)

\* the tokenizer's own chat template, rendered by the transformers library:
\* opaque to the gateway, returned unchanged
RECURSIVE TemplatePrompt(_, _)
TemplatePrompt(messages, i) ==
    IF i > Len(messages) THEN <<"<|assistant|>">>
    ELSE <<"<|" \o messages[i].role \o "|>">> \o messages[i].content
         \o TemplatePrompt(messages, i + 1)

\* format_chat_prompt whose fallback ends after the last message
format_chat_prompt_NoSuffix(messages, tokenizer) ==
    CASE tokenizer = "unavailable" ->
            [ok |-> FALSE, exc |-> [type |-> "OSError",
                                    message |-> <<"tokenizer", " ", "unavailable">>]]
      [] tokenizer = "template" ->
            [ok |-> TRUE, prompt |-> TemplatePrompt(messages, 1)]
      [] OTHER ->
            [ok |-> TRUE, prompt |-> FallbackPrompt(messages, 1)]

\* format_chat_prompt: [ok, prompt] or [ok = FALSE, exc] when get_tokenizer
\* raises
format_chat_prompt(messages, tokenizer) ==
    CASE tokenizer = "unavailable" ->
            [ok |-> FALSE, exc |-> [type |-> "OSError",
                                    message |-> <<"tokenizer", " ", "unavailable">>]]
      [] tokenizer = "template" ->
            [ok |-> TRUE, prompt |-> TemplatePrompt(messages, 1)]
      [] OTHER ->
            [ok |-> TRUE,
             prompt |-> FallbackPrompt(messages, 1) \o <<"Assistant:", " ">>]

\* len(text.split()): the number of maximal runs of non-whitespace pieces
RECURSIVE SplitLen(_, _, _)
SplitLen(text, i, inWord) ==
    IF i > Len(text) THEN 0
    ELSE IF text[i] \in Whitespace THEN SplitLen(text, i + 1, FALSE)
    ELSE (IF inWord THEN 0 ELSE 1) + SplitLen(text, i + 1, TRUE)

\* ------------------------------------------------------------ handler.py
\* EngineNotReady with only the flag tested, and the wrong way round
EngineNotReady_Inverted(ready, eng) == ready

\* the entry test of both generation handlers
EngineNotReady(ready, eng) == ~ready \/ eng = None

\* health_check that answers healthy whatever the flag says
health_check_response_AlwaysHealthy(ready) ==
    [status_code |-> 200, content |-> [status |-> "healthy"]]

\* health_check: status code and body from the readiness flag
health_check_response(ready) ==
    IF ~ready THEN [status_code |-> 503, content |-> [status |-> "initializing"]]
    ELSE [status_code |-> 200, content |-> [status |-> "healthy"]]

\* SamplingParams(...) as generate_completion builds it
CompletionSamplingParams(b) ==
    [max_tokens |-> b.max_tokens, temperature |-> b.temperature,
     top_p |-> b.top_p, top_k |-> b.top_k,
     frequency_penalty |-> b.frequency_penalty,
     presence_penalty |-> b.presence_penalty]

\* SamplingParams(...) as chat_completions builds it
ChatSamplingParams(b) ==
    [max_tokens |-> b.max_tokens, temperature |-> b.temperature,
     top_p |-> b.top_p]

\* random_uuid() called by the handler of request r, which drew n ids
\* before: a value no call has returned before
random_uuid(r, n) == n * Cardinality(Reqs) + r

\* raise HTTPException(status_code, detail)
HTTPException(status_code, detail) ==
    [type |-> "HTTPException", status_code |-> status_code, detail |-> detail]

\* str(e): an HTTPException prints its status code and its detail
StrExc(e) ==
    IF e.type = "HTTPException"
    THEN <<ToString(e.status_code) \o ":", " ", e.detail.error, " ">>
         \o e.detail.detail
    ELSE e.message

\* the exceptions the handlers can meet
EngineFailure == [type |-> "RuntimeError", message |-> <<"engine", " ", "failure">>]
NoneTypeError ==
    [type |-> "AttributeError",
     message |-> <<"'NoneType'", " ", "object", " ", "has", " ", "no", " ",
                   "attribute", " ", "'generate'">>]

\* the except clause of generate_completion
CompletionExcept(e, request_id) ==
    HTTPException(500, create_error_response("GenerationError",
        <<"Generation", " ", "failed:", " ">> \o StrExc(e), request_id))

\* the except clause of chat_completions
ChatExcept(e, request_id) ==
    HTTPException(500, create_error_response("ChatCompletionError",
        <<"Chat", " ", "completion", " ", "failed:", " ">> \o StrExc(e),
        request_id))

\* DataFrames that yields every item twice
RECURSIVE DataFrames_Twice(_, _)
DataFrames_Twice(outputs, i) ==
    IF i > Len(outputs) THEN << >>
    ELSE LET f == [type |-> "data",
                   payload |-> [text |-> outputs[i].text,
                                finish_reason |-> outputs[i].finish_reason]]
         IN << f, f >> \o DataFrames_Twice(outputs, i + 1)

\* the frames stream_completion yields for one engine output: one per item
RECURSIVE DataFrames(_, _)
DataFrames(outputs, i) ==
    IF i > Len(outputs) THEN << >>
    ELSE << [type |-> "data",
             payload |-> [text |-> outputs[i].text,
                          finish_reason |-> outputs[i].finish_reason]] >>
         \o DataFrames(outputs, i + 1)

DoneFrame == [type |-> "done", payload |-> [done |-> TRUE]]

\* an error frame that sends the envelope of the buffered errors instead
ErrorFrame_Envelope(e) ==
    [type |-> "error",
     payload |-> [error |-> "GenerationError", detail |-> StrExc(e)]]

\* the frame of the except clause of stream_completion
ErrorFrame(e) == [type |-> "error", payload |-> [error |-> StrExc(e)]]

\* --------------------------------------------------------------- the state
VARIABLES
    engine,         \* global engine: None or the engine handle
    engine_ready,   \* global engine_ready
    lifespan_pc,    \* position of lifespan(): start, yielded, raised, exited
    ping,           \* the last response of GET /ping
    uuids,          \* per request: number of ids random_uuid() gave it
    jobs,           \* engine side: request_id -> generation job
    pc,             \* per request: position of its handler
    req,            \* per request: route and parsed body
    local,          \* per request: the handler's local variables
    response,       \* per request: the HTTP response (status code, content)
    frames          \* per request: the SSE frames yielded so far

vars == <<engine, engine_ready, lifespan_pc, ping, uuids, jobs, pc, req,
          local, response, frames>>

NoRequest == [route |-> "none"]
NoResponse == [status_code |-> 0, content |-> [empty |-> TRUE]]
NoLocal ==
    [entry_ready |-> FALSE, request_id |-> NoId, results |-> NoJob,
     consumed |-> 0, final_output |-> [empty |-> TRUE], prompt |-> << >>,
     formatted |-> FALSE, tokenizer |-> "none", closed_by |-> "none"]

Terminal == {"rejected", "failed", "buffered_complete", "streaming_closed"}

Init ==
    /\ engine = None
    /\ engine_ready = FALSE
    /\ lifespan_pc = "start"
    /\ ping = NoResponse
    /\ uuids = [r \in Reqs |-> 0]
    /\ jobs = << >>
    /\ pc = [r \in Reqs |-> "idle"]
    /\ req = [r \in Reqs |-> NoRequest]
    /\ local = [r \in Reqs |-> NoLocal]
    /\ response = [r \in Reqs |-> NoResponse]
    /\ frames = [r \in Reqs |-> << >>]

\* ------------------------------------------------------------ the engine
\* engine.generate(prompt, sampling_params, request_id): a new job whose
\* outputs the caller pulls one at a time
NewJob(prompt, sampling_params, eng, ready) ==
    [prompt |-> prompt, sampling_params |-> sampling_params,
     handle |-> eng, ready_at_submit |-> ready,
     produced |-> << >>, status |-> "running"]

\* the i-th RequestOutput of job j: cumulative text of i tokens, one
\* CompletionOutput because SamplingParams is built with the default n
RequestOutput(j, i, fin) ==
    [request_id |-> j,
     outputs |-> << [text |-> [of |-> jobs[j].prompt, n |-> i],
                     finish_reason |-> IF fin THEN "stop" ELSE None,
                     token_ids |-> i] >>]

\* the engine produces the next output of a job; the last one carries a
\* finish reason and ends the sequence
engine_produce(j, fin) ==
    /\ j \in DOMAIN jobs
    /\ jobs[j].status = "running"
    /\ Len(jobs[j].produced) < MaxUnits
    /\ jobs' = [jobs EXCEPT ![j].produced =
                    Append(@, RequestOutput(j, Len(@) + 1, fin)),
                 ![j].status = IF fin THEN "done" ELSE "running"]
    /\ UNCHANGED <<engine, engine_ready, lifespan_pc, ping, uuids, pc, req,
                   local, response, frames>>

\* the engine ends a job that produced nothing
engine_end_empty(j) ==
    /\ j \in DOMAIN jobs
    /\ jobs[j].status = "running"
    /\ jobs[j].produced = << >>
    /\ jobs' = [jobs EXCEPT ![j].status = "done"]
    /\ UNCHANGED <<engine, engine_ready, lifespan_pc, ping, uuids, pc, req,
                   local, response, frames>>

\* the engine fails a job: the next pull past the produced outputs raises
engine_raise(j) ==
    /\ j \in DOMAIN jobs
    /\ jobs[j].status = "running"
    /\ jobs' = [jobs EXCEPT ![j].status = "raised"]
    /\ UNCHANGED <<engine, engine_ready, lifespan_pc, ping, uuids, pc, req,
                   local, response, frames>>

\* ------------------------------------------------------------- lifecycle
\* lifespan startup: create_engine() succeeds, lifespan reaches its yield
create_engine_ok ==
    /\ lifespan_pc = "start"
    /\ engine' = Engine
    /\ engine_ready' = TRUE
    /\ lifespan_pc' = "yielded"
    /\ UNCHANGED <<ping, uuids, jobs, pc, req, local, response, frames>>

\* a failed engine construction that leaves the flag set: the flag raised
\* before the construction and not cleared by the except clause
create_engine_fail_SetsReady ==
    /\ lifespan_pc = "start"
    /\ engine_ready' = TRUE
    /\ lifespan_pc' = "raised"
    /\ UNCHANGED <<engine, ping, uuids, jobs, pc, req, local, response, frames>>

\* lifespan startup: engine construction raises; create_engine logs, clears
\* the flag and re-raises, and lifespan ends with that exception before its
\* yield
create_engine_fail ==
    /\ lifespan_pc = "start"
    /\ engine_ready' = FALSE
    /\ lifespan_pc' = "raised"
    /\ UNCHANGED <<engine, ping, uuids, jobs, pc, req, local, response, frames>>

\* shutdown cleanup that drops the handle and leaves the flag as it is
lifespan_shutdown_KeepsFlag ==
    /\ lifespan_pc = "yielded"
    /\ engine' = None
    /\ lifespan_pc' = "exited"
    /\ UNCHANGED <<engine_ready, ping, uuids, jobs, pc, req, local, response,
                   frames>>

\* lifespan after its yield: shutdown cleanup
lifespan_shutdown ==
    /\ lifespan_pc = "yielded"
    /\ IF engine # None
       THEN engine' = None /\ engine_ready' = FALSE
       ELSE UNCHANGED <<engine, engine_ready>>
    /\ lifespan_pc' = "exited"
    /\ UNCHANGED <<ping, uuids, jobs, pc, req, local, response, frames>>

\* GET /ping answered by a probe that builds the engine when there is none
health_check_LazyInit ==
    /\ ping' = health_check_response(engine_ready)
    /\ IF engine = None
       THEN engine' = Engine /\ engine_ready' = TRUE
       ELSE UNCHANGED <<engine, engine_ready>>
    /\ UNCHANGED <<lifespan_pc, uuids, jobs, pc, req, local, response, frames>>

\* GET /ping
health_check ==
    /\ ping' = health_check_response(engine_ready)
    /\ UNCHANGED <<engine, engine_ready, lifespan_pc, uuids, jobs, pc, req,
                   local, response, frames>>

\* the body GET / returns
root_response(ready) ==
    [message |-> <<"vLLM", " ", "Load", " ", "Balancing", " ", "Server">>,
     status |-> IF ready THEN "ready" ELSE "initializing",
     endpoints |-> [health |-> "/ping", generate |-> "/v1/completions",
                    chat |-> "/v1/chat/completions"]]

\* GET /: reads engine_ready to build its answer, which goes to the client;
\* nothing of the process changes
root ==
    /\ root_response(engine_ready).status \in {"ready", "initializing"}
    /\ UNCHANGED vars

\* ------------------------------------------------------ request handlers
\* FastAPI answers a body that fails the request model before the handler
\* runs (no exception handler is registered, so the default 422 is sent)
RequestValidationError ==
    [status_code |-> 422,
     content |-> [detail |-> [type |-> "value_error", loc |-> "body",
                              msg |-> <<"field", " ", "out", " ", "of", " ",
                                        "range">>]]]

\* the response FastAPI sends for a raised HTTPException
ExceptionResponse(e) ==
    [status_code |-> e.status_code, content |-> [detail |-> e.detail]]

\* the 503 both generation handlers raise at entry
EngineNotReadyError ==
    HTTPException(503, create_error_response("ServiceUnavailable",
        <<"Engine", " ", "not", " ", "ready">>, NoId))

\* what final_output.prompt_token_ids can hold for a prompt: the length of the
\* engine's token id list (a leading special token and one id per piece), or
\* -1 for an attribute that is None
PromptTokenIds(prompt) == {-1, Len(prompt) + 1}

\* final_output as the code after the loop reads it
WithPromptTokenIds(final_output, ids) ==
    [request_id |-> final_output.request_id, outputs |-> final_output.outputs,
     prompt_token_ids |-> ids]

\* prompt_tokens of a buffered response
PromptTokens(final_output, prompt) ==
    IF final_output.prompt_token_ids # -1
    THEN final_output.prompt_token_ids
    ELSE SplitLen(prompt, 1, FALSE)

\* the GenerationResponse of generate_completion
GenerationResponse(final_output, prompt) ==
    LET prompt_tokens == PromptTokens(final_output, prompt)
        completion_tokens == final_output.outputs[1].token_ids
    IN [text |-> final_output.outputs[1].text,
        finish_reason |-> final_output.outputs[1].finish_reason,
        prompt_tokens |-> prompt_tokens,
        completion_tokens |-> completion_tokens,
        total_tokens |-> prompt_tokens + completion_tokens]

\* ChatCompletion with total_tokens always computed from the word count of
\* the prompt
ChatCompletion_TotalFromWords(final_output, prompt, request_id) ==
    [id |-> request_id, object |-> "chat.completion",
     choices |-> << [index |-> 0,
                     message |-> [role |-> "assistant",
                                  content |-> final_output.outputs[1].text],
                     finish_reason |-> final_output.outputs[1].finish_reason] >>,
     usage |-> [prompt_tokens |-> PromptTokens(final_output, prompt),
                completion_tokens |-> final_output.outputs[1].token_ids,
                total_tokens |-> SplitLen(prompt, 1, FALSE)
                                 + final_output.outputs[1].token_ids]]

\* the chat.completion object of chat_completions
ChatCompletion(final_output, prompt, request_id) ==
    [id |-> request_id, object |-> "chat.completion",
     choices |-> << [index |-> 0,
                     message |-> [role |-> "assistant",
                                  content |-> final_output.outputs[1].text],
                     finish_reason |-> final_output.outputs[1].finish_reason] >>,
     usage |-> [prompt_tokens |-> PromptTokens(final_output, prompt),
                completion_tokens |-> final_output.outputs[1].token_ids,
                total_tokens |-> PromptTokens(final_output, prompt)
                                 + final_output.outputs[1].token_ids]]

\* Pull on one iterator shared by all handlers: the job submitted first
Pull_FromFirstJob(js, j, consumed) ==
    LET k == CHOOSE m \in DOMAIN js : \A n \in DOMAIN js : m <= n
    IN IF consumed < Len(js[k].produced)
       THEN [kind |-> "output", output |-> js[k].produced[consumed + 1]]
       ELSE IF js[k].status = "done" THEN [kind |-> "end"]
       ELSE IF js[k].status = "raised"
            THEN [kind |-> "raise", exc |-> EngineFailure]
       ELSE [kind |-> "wait"]

\* Pull on an iterator that swallows the engine's failure: the consumer is
\* left waiting
Pull_SwallowsFailure(js, j, consumed) ==
    IF consumed < Len(js[j].produced)
    THEN [kind |-> "output", output |-> js[j].produced[consumed + 1]]
    ELSE IF js[j].status = "done" THEN [kind |-> "end"]
    ELSE [kind |-> "wait"]

\* what the next pull on a results iterator gives: an output, the end of
\* the sequence, a raised failure, or nothing yet
Pull(js, j, consumed) ==
    IF consumed < Len(js[j].produced)
    THEN [kind |-> "output", output |-> js[j].produced[consumed + 1]]
    ELSE IF js[j].status = "done" THEN [kind |-> "end"]
    ELSE IF js[j].status = "raised" THEN [kind |-> "raise", exc |-> EngineFailure]
    ELSE [kind |-> "wait"]

\* StreamYield with the terminator in a finally clause: sent after the error
\* frame too
StreamYield_DoneAfterError(p) ==
    CASE p.kind = "output" -> DataFrames(p.output.outputs, 1)
      [] p.kind = "end" -> << DoneFrame >>
      [] p.kind = "raise" -> << ErrorFrame(p.exc), DoneFrame >>

\* what stream_completion yields after a pull: the frames of an output,
\* the terminator after the loop, or the frame of the except clause
StreamYield(p) ==
    CASE p.kind = "output" -> DataFrames(p.output.outputs, 1)
      [] p.kind = "end" -> << DoneFrame >>
      [] p.kind = "raise" -> << ErrorFrame(p.exc) >>

\* KeepOutput that holds on to the first output it was given
KeepOutput_First(final_output, output) ==
    IF "empty" \in DOMAIN final_output THEN output ELSE final_output

\* the body of `async for output in results`: final_output = output
KeepOutput(final_output, output) == output

\* POST /v1/completions up to its first await
generate_completion(r) ==
    /\ pc[r] = "idle"
    /\ \E body \in GenerationRequests :
        /\ req' = [req EXCEPT ![r] = [route |-> "completions", body |-> body]]
        /\ IF ~GenerationRequestValid(body)
           THEN /\ pc' = [pc EXCEPT ![r] = "rejected"]
                /\ response' = [response EXCEPT ![r] = RequestValidationError]
                /\ UNCHANGED <<uuids, jobs, local>>
           ELSE IF EngineNotReady(engine_ready, engine)
           THEN /\ pc' = [pc EXCEPT ![r] = "rejected"]
                /\ response' = [response EXCEPT
                                    ![r] = ExceptionResponse(EngineNotReadyError)]
                /\ local' = [local EXCEPT ![r].entry_ready = engine_ready]
                /\ UNCHANGED <<uuids, jobs>>
           ELSE LET request_id == random_uuid(r, uuids[r])
                    sampling_params == CompletionSamplingParams(body)
                IN /\ uuids' = [uuids EXCEPT ![r] = @ + 1]
                   /\ IF body.stream
                      THEN /\ pc' = [pc EXCEPT ![r] = "stream_pending"]
                           /\ response' = [response EXCEPT ![r] =
                                  [status_code |-> 200,
                                   content |-> [media_type |-> "text/event-stream"]]]
                           /\ local' = [local EXCEPT
                                  ![r].entry_ready = engine_ready,
                                  ![r].request_id = request_id,
                                  ![r].prompt = body.prompt]
                           /\ UNCHANGED jobs
                      ELSE /\ pc' = [pc EXCEPT ![r] = "drain"]
                           /\ jobs' = (request_id :> NewJob(body.prompt,
                                          sampling_params, engine,
                                          engine_ready)) @@ jobs
                           /\ local' = [local EXCEPT
                                  ![r].entry_ready = engine_ready,
                                  ![r].request_id = request_id,
                                  ![r].results = request_id,
                                  ![r].prompt = body.prompt]
                           /\ UNCHANGED response
    /\ UNCHANGED <<engine, engine_ready, lifespan_pc, ping, frames>>

\* generate_completion, stream=false: one pull of `async for output in
\* results`, then the code after the loop or the except clause
completion_drain(r) ==
    /\ pc[r] = "drain"
    /\ req[r].route = "completions"
    /\ LET p == Pull(jobs, local[r].results, local[r].consumed)
       IN /\ p.kind # "wait"
          /\ CASE p.kind = "output" ->
                    /\ local' = [local EXCEPT ![r].final_output = KeepOutput(@, p.output),
                                              ![r].consumed = @ + 1]
                    /\ UNCHANGED <<pc, response, uuids>>
               [] p.kind = "end" /\ local[r].consumed = 0 ->
                    \* final_output is None: the HTTPException raised with a
                    \* fresh id is caught by the except clause below it
                    LET inner == HTTPException(500, create_error_response(
                                    "GenerationError",
                                    <<"No", " ", "output", " ", "generated">>,
                                    random_uuid(r, uuids[r])))
                        outer == CompletionExcept(inner, random_uuid(r, uuids[r] + 1))
                    IN /\ uuids' = [uuids EXCEPT ![r] = @ + 2]
                       /\ local' = [local EXCEPT
                                       ![r].request_id = random_uuid(r, uuids[r] + 1)]
                       /\ pc' = [pc EXCEPT ![r] = "failed"]
                       /\ response' = [response EXCEPT
                                          ![r] = ExceptionResponse(outer)]
               [] p.kind = "end" /\ local[r].consumed > 0 ->
                    \E ids \in PromptTokenIds(req[r].body.prompt) :
                    LET final_output ==
                            WithPromptTokenIds(local[r].final_output, ids)
                        body == GenerationResponse(final_output,
                                                   req[r].body.prompt)
                    IN IF body.finish_reason = None
                       THEN \* GenerationResponse rejects a null finish_reason
                            /\ uuids' = [uuids EXCEPT ![r] = @ + 1]
                            /\ local' = [local EXCEPT
                                            ![r].request_id = random_uuid(r, uuids[r])]
                            /\ pc' = [pc EXCEPT ![r] = "failed"]
                            /\ response' = [response EXCEPT ![r] =
                                  ExceptionResponse(CompletionExcept(
                                      [type |-> "ValidationError",
                                       message |-> <<"finish_reason">>],
                                      random_uuid(r, uuids[r])))]
                       ELSE /\ pc' = [pc EXCEPT ![r] = "buffered_complete"]
                            /\ response' = [response EXCEPT ![r] =
                                  [status_code |-> 200, content |-> body]]
                            /\ local' = [local EXCEPT
                                            ![r].final_output = final_output]
                            /\ UNCHANGED uuids
               [] p.kind = "raise" ->
                    /\ uuids' = [uuids EXCEPT ![r] = @ + 1]
                    /\ local' = [local EXCEPT
                                    ![r].request_id = random_uuid(r, uuids[r])]
                    /\ pc' = [pc EXCEPT ![r] = "failed"]
                    /\ response' = [response EXCEPT ![r] =
                          ExceptionResponse(CompletionExcept(p.exc,
                                                             random_uuid(r, uuids[r])))]
    /\ UNCHANGED <<engine, engine_ready, lifespan_pc, ping, jobs, req, frames>>

\* StreamEngine for a generator that keeps the handle its handler tested
StreamEngine_Captured(at_entry, now) == at_entry

\* the engine stream_completion calls generate on: the global engine read
\* when the generator runs, not the one the handler tested at entry
StreamEngine(at_entry, now) == now

\* stream_completion up to its first await: results = engine.generate(...)
\* on the global engine as it is when the response body starts to be sent
\* (the handler returned the StreamingResponse after its entry test passed,
\* so the engine was there at entry)
stream_completion_start(r) ==
    /\ pc[r] = "stream_pending"
    /\ IF StreamEngine(Engine, engine) = None
        THEN \* None has no generate: the except clause yields the error frame
             /\ frames' = [frames EXCEPT ![r] = @ \o StreamYield(
                               [kind |-> "raise", exc |-> NoneTypeError])]
             /\ pc' = [pc EXCEPT ![r] = "streaming_closed"]
             /\ local' = [local EXCEPT ![r].closed_by = "error"]
             /\ UNCHANGED jobs
        ELSE /\ jobs' = (local[r].request_id :>
                            NewJob(local[r].prompt,
                                   CompletionSamplingParams(req[r].body),
                                   StreamEngine(Engine, engine),
                                   engine_ready)) @@ jobs
             /\ local' = [local EXCEPT ![r].results = local[r].request_id]
             /\ pc' = [pc EXCEPT ![r] = "streaming"]
             /\ UNCHANGED frames
    /\ UNCHANGED <<engine, engine_ready, lifespan_pc, ping, uuids, req, response>>

\* stream_completion: one pull of `async for output in results` and the
\* yields that follow it
stream_completion_next(r) ==
    /\ pc[r] = "streaming"
    /\ LET p == Pull(jobs, local[r].results, local[r].consumed)
       IN /\ p.kind # "wait"
          /\ frames' = [frames EXCEPT ![r] = @ \o StreamYield(p)]
          /\ CASE p.kind = "output" ->
                    /\ local' = [local EXCEPT ![r].consumed = @ + 1]
                    /\ UNCHANGED pc
               [] p.kind = "end" ->
                    /\ local' = [local EXCEPT ![r].closed_by = "done"]
                    /\ pc' = [pc EXCEPT ![r] = "streaming_closed"]
               [] p.kind = "raise" ->
                    /\ local' = [local EXCEPT ![r].closed_by = "error"]
                    /\ pc' = [pc EXCEPT ![r] = "streaming_closed"]
    /\ UNCHANGED <<engine, engine_ready, lifespan_pc, ping, uuids, jobs, req,
                   response>>

\* the client goes away while the stream is open: the generator is
\* cancelled at its suspension point; the cancellation is not an Exception,
\* so the except clause does not run and nothing more is yielded
client_disconnect(r) ==
    /\ pc[r] \in {"stream_pending", "streaming"}
    /\ pc' = [pc EXCEPT ![r] = "streaming_closed"]
    /\ local' = [local EXCEPT ![r].closed_by = "cancelled"]
    /\ UNCHANGED <<engine, engine_ready, lifespan_pc, ping, uuids, jobs, req,
                   response, frames>>

\* POST /v1/chat/completions up to its first await
chat_completions(r) ==
    /\ pc[r] = "idle"
    /\ \E body \in ChatCompletionRequests, tokenizer \in Tokenizers :
        /\ req' = [req EXCEPT ![r] = [route |-> "chat", body |-> body]]
        /\ IF ~ChatCompletionRequestValid(body)
           THEN /\ pc' = [pc EXCEPT ![r] = "rejected"]
                /\ response' = [response EXCEPT ![r] = RequestValidationError]
                /\ UNCHANGED <<uuids, jobs, local>>
           ELSE IF EngineNotReady(engine_ready, engine)
           THEN /\ pc' = [pc EXCEPT ![r] = "rejected"]
                /\ response' = [response EXCEPT
                                    ![r] = ExceptionResponse(EngineNotReadyError)]
                /\ local' = [local EXCEPT ![r].entry_ready = engine_ready]
                /\ UNCHANGED <<uuids, jobs>>
           ELSE IF body.messages = << >>
           THEN \* the 400 is raised inside the try block and caught by
                \* `except Exception`
                LET inner == HTTPException(400, create_error_response(
                                "ValidationError",
                                <<"No", " ", "messages", " ", "provided">>, NoId))
                IN /\ uuids' = [uuids EXCEPT ![r] = @ + 1]
                   /\ pc' = [pc EXCEPT ![r] = "failed"]
                   /\ response' = [response EXCEPT ![r] = ExceptionResponse(
                                      ChatExcept(inner, random_uuid(r, uuids[r])))]
                   /\ local' = [local EXCEPT
                                   ![r].entry_ready = engine_ready,
                                   ![r].request_id = random_uuid(r, uuids[r])]
                   /\ UNCHANGED jobs
           ELSE LET f == format_chat_prompt(body.messages, tokenizer)
                IN IF ~f.ok
                   THEN /\ uuids' = [uuids EXCEPT ![r] = @ + 1]
                        /\ pc' = [pc EXCEPT ![r] = "failed"]
                        /\ response' = [response EXCEPT ![r] = ExceptionResponse(
                                           ChatExcept(f.exc, random_uuid(r, uuids[r])))]
                        /\ local' = [local EXCEPT
                                        ![r].entry_ready = engine_ready,
                                        ![r].formatted = TRUE,
                                        ![r].tokenizer = tokenizer,
                                        ![r].request_id = random_uuid(r, uuids[r])]
                        /\ UNCHANGED jobs
                   ELSE LET request_id == random_uuid(r, uuids[r])
                        IN /\ uuids' = [uuids EXCEPT ![r] = @ + 1]
                           /\ pc' = [pc EXCEPT ![r] = "drain"]
                           /\ jobs' = (request_id :> NewJob(f.prompt,
                                          ChatSamplingParams(body), engine,
                                          engine_ready)) @@ jobs
                           /\ local' = [local EXCEPT
                                  ![r].entry_ready = engine_ready,
                                  ![r].formatted = TRUE,
                                  ![r].tokenizer = tokenizer,
                                  ![r].request_id = request_id,
                                  ![r].results = request_id,
                                  ![r].prompt = f.prompt]
                           /\ UNCHANGED response
    /\ UNCHANGED <<engine, engine_ready, lifespan_pc, ping, frames>>

\* chat_completions: one pull of `async for output in results`, then the
\* code after the loop or the except clause
chat_drain(r) ==
    /\ pc[r] = "drain"
    /\ req[r].route = "chat"
    /\ LET p == Pull(jobs, local[r].results, local[r].consumed)
       IN /\ p.kind # "wait"
          /\ CASE p.kind = "output" ->
                    /\ local' = [local EXCEPT ![r].final_output = KeepOutput(@, p.output),
                                              ![r].consumed = @ + 1]
                    /\ UNCHANGED <<pc, response, uuids>>
               [] p.kind = "end" /\ local[r].consumed = 0 ->
                    \* final_output is None: the HTTPException carrying the
                    \* job's id is caught by the except clause below it
                    LET inner == HTTPException(500, create_error_response(
                                    "GenerationError",
                                    <<"No", " ", "output", " ", "generated">>,
                                    local[r].request_id))
                    IN /\ uuids' = [uuids EXCEPT ![r] = @ + 1]
                       /\ local' = [local EXCEPT
                                       ![r].request_id = random_uuid(r, uuids[r])]
                       /\ pc' = [pc EXCEPT ![r] = "failed"]
                       /\ response' = [response EXCEPT ![r] = ExceptionResponse(
                                          ChatExcept(inner, random_uuid(r, uuids[r])))]
               [] p.kind = "end" /\ local[r].consumed > 0 ->
                    \E ids \in PromptTokenIds(local[r].prompt) :
                    LET final_output ==
                            WithPromptTokenIds(local[r].final_output, ids)
                    IN /\ pc' = [pc EXCEPT ![r] = "buffered_complete"]
                       /\ response' = [response EXCEPT ![r] =
                             [status_code |-> 200,
                              content |-> ChatCompletion(final_output,
                                           local[r].prompt, local[r].request_id)]]
                       /\ local' = [local EXCEPT ![r].final_output = final_output]
                       /\ UNCHANGED uuids
               [] p.kind = "raise" ->
                    /\ uuids' = [uuids EXCEPT ![r] = @ + 1]
                    /\ local' = [local EXCEPT
                                    ![r].request_id = random_uuid(r, uuids[r])]
                    /\ pc' = [pc EXCEPT ![r] = "failed"]
                    /\ response' = [response EXCEPT ![r] = ExceptionResponse(
                                       ChatExcept(p.exc, random_uuid(r, uuids[r])))]
    /\ UNCHANGED <<engine, engine_ready, lifespan_pc, ping, jobs, req, frames>>

\* ---------------------------------------------------------- specification
Next ==
    \/ create_engine_ok
    \/ create_engine_fail
    \/ lifespan_shutdown
    \/ health_check
    \/ root
    \/ \E r \in Reqs : generate_completion(r)
    \/ \E r \in Reqs : completion_drain(r)
    \/ \E r \in Reqs : stream_completion_start(r)
    \/ \E r \in Reqs : stream_completion_next(r)
    \/ \E r \in Reqs : client_disconnect(r)
    \/ \E r \in Reqs : chat_completions(r)
    \/ \E r \in Reqs : chat_drain(r)
    \/ \E j \in DOMAIN jobs, fin \in BOOLEAN : engine_produce(j, fin)
    \/ \E j \in DOMAIN jobs : engine_end_empty(j)
    \/ \E j \in DOMAIN jobs : engine_raise(j)

Spec == Init /\ [][Next]_vars

\* the ids engine jobs can have: the first uuid a request draws
JobIds == { random_uuid(r, 0) : r \in Reqs }

\* any step of the engine on job j
engine_step(j) ==
    \/ \E fin \in BOOLEAN : engine_produce(j, fin)
    \/ engine_end_empty(j)
    \/ engine_raise(j)

\* the coroutine of request r goes on after an await: at most one of these
\* steps is possible at a time
resume(r) ==
    \/ completion_drain(r)
    \/ chat_drain(r)
    \/ stream_completion_start(r)
    \/ stream_completion_next(r)

\* Next without the two probes: they write nothing a request reads (ping
\* only, or nothing), so the requests go the same ways with and without them
ServeNext ==
    \/ create_engine_ok
    \/ create_engine_fail
    \/ lifespan_shutdown
    \/ \E r \in Reqs : generate_completion(r)
    \/ \E r \in Reqs : chat_completions(r)
    \/ \E r \in Reqs : client_disconnect(r)
    \/ \E r \in Reqs : resume(r)
    \/ \E j \in JobIds : engine_step(j)

\* the event loop resumes every coroutine that can go on, and every engine
\* sequence is finite: a running job gets its next output, ends or raises.
\* Nothing obliges a client to send a request or to disconnect, nor the
\* process to be shut down.
FairSpec ==
    /\ Init /\ [][ServeNext]_vars
    /\ \A r \in Reqs : WF_vars(resume(r))
    /\ \A j \in JobIds : WF_vars(engine_step(j))

\* ================================================================ claims
\* the request reached the handler body: it arrived and passed the request
\* model
Entered(r) == pc[r] # "idle" /\ response[r] # RequestValidationError

IsStream(r) == req[r].route = "completions" /\ Entered(r) /\ req[r].body.stream
               /\ pc[r] \in {"stream_pending", "streaming", "streaming_closed"}

TerminalFrames(fs) == { i \in 1..Len(fs) : fs[i].type \in {"done", "error"} }

\* fs is not empty, its last frame is its only terminal frame
EndsWithOneTerminal(fs) ==
    /\ Len(fs) >= 1
    /\ TerminalFrames(fs) = {Len(fs)}

\* C1 as stated: every streaming request, whatever the engine does and also
\* when the consumer stops, ends its stream non-empty with exactly one
\* terminal frame ([DONE] or an error frame) as the last frame.
C1_Original ==
    \A r \in Reqs :
        (IsStream(r) /\ pc[r] = "streaming_closed")
            => EndsWithOneTerminal(frames[r])

\* C1 amended: a streaming request whose consumer stays until the generator
\* ends gets a non-empty stream whose last frame is its only terminal frame,
\* [DONE] after normal completion and the error frame after a failure; at no
\* time does a stream hold two terminal frames or a frame after a terminal
\* one; a stream whose consumer stopped first holds no terminal frame.
C1_StreamEndsWithOneTerminal ==
    \A r \in Reqs :
        IsStream(r) =>
            /\ Cardinality(TerminalFrames(frames[r])) <= 1
            /\ TerminalFrames(frames[r]) \subseteq {Len(frames[r])}
            /\ (pc[r] # "streaming_closed") => TerminalFrames(frames[r]) = {}
            /\ (pc[r] = "streaming_closed" /\ local[r].closed_by = "done")
                    => /\ EndsWithOneTerminal(frames[r])
                       /\ frames[r][Len(frames[r])].type = "done"
            /\ (pc[r] = "streaming_closed" /\ local[r].closed_by = "error")
                    => /\ EndsWithOneTerminal(frames[r])
                       /\ frames[r][Len(frames[r])].type = "error"
            /\ (pc[r] = "streaming_closed" /\ local[r].closed_by = "cancelled")
                    => TerminalFrames(frames[r]) = {}

\* a stream that failed after data frames, and one that completed
C1_Witness ==
    /\ IsStream(1) /\ pc[1] = "streaming_closed"
    /\ local[1].closed_by = "error" /\ Len(frames[1]) = MaxUnits + 1
    /\ IsStream(2) /\ pc[2] = "streaming_closed"
    /\ local[2].closed_by = "done"

\* C2: a generation request, on either route, that enters its handler while
\* engine_ready is false is answered 503 ServiceUnavailable, holds no results
\* iterator and yields no frame, and no job was ever submitted while the flag
\* was false or to a missing handle.
C2_NotReadyRejected ==
    /\ \A r \in Reqs :
          (Entered(r) /\ ~local[r].entry_ready) =>
              /\ pc[r] = "rejected"
              /\ response[r].status_code = 503
              /\ response[r].content.detail.error = "ServiceUnavailable"
              /\ local[r].results = NoJob
              /\ frames[r] = << >>
    /\ \A j \in DOMAIN jobs :
          jobs[j].ready_at_submit /\ jobs[j].handle # None

\* both routes rejected for a missing engine, seen after shutdown
C2_Witness ==
    /\ lifespan_pc = "exited"
    /\ req[1].route = "completions" /\ pc[1] = "rejected"
    /\ response[1].status_code = 503
    /\ req[2].route = "chat" /\ pc[2] = "rejected"
    /\ response[2].status_code = 503

\* C3: every answer of GET /ping is 200 healthy when given between the end
\* of a successful engine construction and shutdown and 503 initializing at
\* any other time, is never healthy without an engine handle, and the probe
\* submits nothing to the engine.
C3_PingFollowsReadiness ==
    [][health_check =>
          /\ ping' = IF lifespan_pc = "yielded"
                     THEN [status_code |-> 200, content |-> [status |-> "healthy"]]
                     ELSE [status_code |-> 503,
                           content |-> [status |-> "initializing"]]
          /\ (ping'.status_code = 200 => engine # None)
          /\ jobs' = jobs]_vars

\* the probe answered healthy while a generation is in flight
C3_Witness ==
    /\ ping.status_code = 200
    /\ lifespan_pc = "yielded"
    /\ DOMAIN jobs # {}

\* C4 as stated: a chat request with an empty messages list (that passed the
\* engine-ready check) is answered 400 with kind tag ValidationError, and
\* neither prompt formatting nor engine submission happened for it.
C4_EmptyMessages400 ==
    \A r \in Reqs :
        (/\ req[r].route = "chat" /\ Entered(r) /\ local[r].entry_ready
         /\ req[r].body.messages = << >>)
        => /\ response[r].status_code = 400
           /\ response[r].content.detail.error = "ValidationError"
           /\ ~local[r].formatted
           /\ local[r].results = NoJob

\* the ranges the request models declare, floats in tenths; a chat body has
\* only the first three fields
InDeclaredRanges(x) ==
    /\ x.max_tokens \in 1..4096
    /\ x.temperature \in 0..20
    /\ x.top_p \in 0..10
    /\ ("top_k" \in DOMAIN x) => x.top_k >= -1
    /\ ("frequency_penalty" \in DOMAIN x) => x.frequency_penalty \in (-20)..20
    /\ ("presence_penalty" \in DOMAIN x) => x.presence_penalty \in (-20)..20

\* C5: the sampling values of every job handed to the engine are within the
\* declared ranges, and a request with a field out of range (max_tokens 0,
\* temperature 2.5, top_p 1.5, ...) is answered with the validation error,
\* holds no results iterator and yields no frame.
C5_EngineSeesValidatedOnly ==
    /\ \A j \in DOMAIN jobs : InDeclaredRanges(jobs[j].sampling_params)
    /\ \A r \in Reqs :
          (pc[r] # "idle" /\ ~InDeclaredRanges(req[r].body)) =>
              /\ pc[r] = "rejected"
              /\ response[r] = RequestValidationError
              /\ local[r].results = NoJob
              /\ frames[r] = << >>

\* max_tokens 0 was refused while a job runs with every field at the top of
\* its range
C5_Witness ==
    /\ pc[1] = "rejected" /\ req[1].body.max_tokens = 0
    /\ local[2].results # NoJob
    /\ jobs[local[2].results].sampling_params.max_tokens = 4096
    /\ jobs[local[2].results].sampling_params.temperature = 20

\* lifespan got past `await create_engine()` to its yield: startup completed
\* and the application serves
StartupCompleted == lifespan_pc \in {"yielded", "exited"}

\* C6 as stated: after a failed engine construction readiness is
\* initializing, the application is up and serving, every generation request
\* handled was answered 503 ServiceUnavailable and /ping does not answer
\* healthy.
C6_FailedStartKeepsServing ==
    (lifespan_pc = "raised") =>
        /\ ~engine_ready
        /\ StartupCompleted
        /\ \A r \in Reqs :
              Entered(r) => /\ response[r].status_code = 503
                            /\ response[r].content.detail.error
                                   = "ServiceUnavailable"
        /\ health_check_response(engine_ready).status_code = 503

\* C7: of two completion requests with different prompts, each receives only
\* units generated from its own prompt, the i-th data frame carrying the
\* i-th unit of its own job, whatever the interleaving; a buffered
\* response carries the text generated from its own prompt.
C7_OwnUnitsOnly ==
    \A r1 \in Reqs, r2 \in Reqs :
        (/\ r1 # r2
         /\ req[r1].route = "completions" /\ Entered(r1)
         /\ req[r2].route = "completions" /\ Entered(r2)
         /\ req[r1].body.prompt # req[r2].body.prompt)
        => /\ \A i \in 1..Len(frames[r1]) :
                 frames[r1][i].type = "data" =>
                     /\ frames[r1][i].payload.text.of = req[r1].body.prompt
                     /\ frames[r1][i].payload.text.n = i
           /\ ("outputs" \in DOMAIN local[r1].final_output) =>
                 local[r1].final_output.outputs[1].text.of = req[r1].body.prompt
           /\ (pc[r1] = "buffered_complete") =>
                 response[r1].content.text.of = req[r1].body.prompt

\* two streams with different prompts open together, both with frames sent
C7_Witness ==
    /\ pc[1] = "streaming" /\ pc[2] = "streaming"
    /\ req[1].body.prompt # req[2].body.prompt
    /\ Len(frames[1]) = MaxUnits
    /\ Len(frames[2]) >= 1
    /\ jobs[local[2].results].status = "running"

\* the data frame of one engine output
FrameOf(output) ==
    [type |-> "data",
     payload |-> [text |-> output.outputs[1].text,
                  finish_reason |-> output.outputs[1].finish_reason]]

\* C8: when the engine sequence of a streaming request raises after k units,
\* the stream is exactly the k data frames of those units in order followed
\* by one frame whose payload is {"error": message}, and the response status
\* is still 200; a stream that could not call the engine at all is the one
\* error frame.
C8_ErrorInBand ==
    \A r \in Reqs :
        (IsStream(r) /\ pc[r] = "streaming_closed"
                     /\ local[r].closed_by = "error")
        => /\ response[r].status_code = 200
           /\ IF local[r].results = NoJob
              THEN frames[r] = << [type |-> "error",
                                   payload |-> [error |-> NoneTypeError.message]] >>
              ELSE LET job == jobs[local[r].results]
                       k == Len(job.produced)
                   IN /\ job.status = "raised"
                      /\ Len(frames[r]) = k + 1
                      /\ \A i \in 1..k : frames[r][i] = FrameOf(job.produced[i])
                      /\ frames[r][k + 1] =
                            [type |-> "error",
                             payload |-> [error |-> <<"engine", " ", "failure">>]]

\* one stream failed after MaxUnits units, the other before its first unit
C8_Witness ==
    /\ IsStream(1) /\ local[1].closed_by = "error"
    /\ local[1].results # NoJob /\ local[1].consumed = MaxUnits
    /\ IsStream(2) /\ local[2].closed_by = "error"
    /\ local[2].results # NoJob /\ local[2].consumed = 0

IsDataFrame(f) == f.type = "data"

\* C9: the data frames of a stream are, one for one and in order, the units
\* the handler took from its job: as many as it consumed, the i-th frame
\* made of the i-th unit produced, all before any terminal frame; when the
\* generator ended by itself every produced unit has its frame.
C9_FramesMatchUnits ==
    \A r \in Reqs :
        (IsStream(r) /\ local[r].results # NoJob)
        => LET data == SelectSeq(frames[r], IsDataFrame)
               produced == jobs[local[r].results].produced
           IN /\ Len(data) = local[r].consumed
              /\ Len(data) <= Len(produced)
              /\ SubSeq(frames[r], 1, Len(data)) = data
              /\ \A i \in 1..Len(data) : data[i] = FrameOf(produced[i])
              /\ (local[r].closed_by \in {"done", "error"})
                    => Len(data) = Len(produced)

\* a stream that completed after MaxUnits units
C9_Witness ==
    /\ IsStream(1) /\ local[1].closed_by = "done"
    /\ Len(frames[1]) = MaxUnits + 1
    /\ IsStream(2) /\ pc[2] = "streaming" /\ Len(frames[2]) = 1
    /\ Len(jobs[local[2].results].produced) = MaxUnits

\* the envelope of a buffered error response
Envelope(r) == response[r].content.detail

\* C10 as stated: every error response, a buffered 503, 400 or 500 as well
\* as an in-band error frame, carries a kind tag and a detail string, and
\* the request_id when the request has one.
C10_Original ==
    \A r \in Reqs :
        /\ (response[r].status_code \in {503, 400, 500}) =>
              /\ {"error", "detail"} \subseteq DOMAIN Envelope(r)
              /\ Envelope(r).error # "" /\ Envelope(r).detail # << >>
              /\ (local[r].request_id # NoId)
                    => Envelope(r).request_id # NoId
        /\ \A i \in 1..Len(frames[r]) :
              frames[r][i].type = "error" =>
                  /\ {"error", "detail"} \subseteq DOMAIN frames[r][i].payload
                  /\ (local[r].request_id # NoId)
                        => "request_id" \in DOMAIN frames[r][i].payload

\* C10 amended: every buffered error response built from an error envelope
\* (503, 400, 500) carries a kind tag and a detail string; a 500 carries the
\* request_id drawn for the error and a 503 carries none, no id existing
\* yet; an in-band error frame carries nothing but the message under the
\* key error.
C10_BufferedErrorsCarryEnvelope ==
    \A r \in Reqs :
        /\ (response[r].status_code \in {503, 400, 500}) =>
              /\ DOMAIN Envelope(r) = {"error", "detail", "request_id"}
              /\ Envelope(r).error # "" /\ Envelope(r).detail # << >>
              /\ (response[r].status_code = 500) =>
                    /\ Envelope(r).request_id # NoId
                    /\ Envelope(r).request_id = local[r].request_id
              /\ (response[r].status_code = 503) =>
                    Envelope(r).request_id = NoId
        /\ \A i \in 1..Len(frames[r]) :
              frames[r][i].type = "error" =>
                  /\ DOMAIN frames[r][i].payload = {"error"}
                  /\ frames[r][i].payload.error # << >>

\* a buffered 500 and a stream closed by an error frame
C10_Witness ==
    /\ pc[1] = "failed" /\ response[1].status_code = 500
    /\ req[1].route = "completions"
    /\ IsStream(2) /\ local[2].closed_by = "error"

\* the kind tags of the error taxonomy
Taxonomy == {"ValidationError", "ServiceUnavailable", "GenerationError"}

\* the engine raised on the job of buffered request r and the handler has
\* answered
EngineFailedBuffered(r) ==
    /\ pc[r] = "failed"
    /\ local[r].results # NoJob
    /\ jobs[local[r].results].status = "raised"

\* C11: on both generation routes a failure raised by the engine for a
\* buffered request is answered 500 with an envelope of kind tag
\* GenerationError, a detail message and a request_id, and the kind tag of
\* every error envelope sent is ValidationError, ServiceUnavailable or
\* GenerationError.
C11_EngineFailureIsGenerationError ==
    \A r \in Reqs :
        /\ EngineFailedBuffered(r) =>
              /\ response[r].status_code = 500
              /\ Envelope(r).error = "GenerationError"
              /\ Envelope(r).detail # << >>
              /\ Envelope(r).request_id # NoId
        /\ (response[r].status_code \in {503, 400, 500}) =>
              Envelope(r).error \in Taxonomy

\* a step of a request handler: the probes, both generation handlers up to
\* and after their awaits, the stream generator and its cancellation
HandlerStep ==
    \/ health_check
    \/ root
    \/ \E r \in Reqs : \/ generate_completion(r)
                       \/ completion_drain(r)
                       \/ stream_completion_start(r)
                       \/ stream_completion_next(r)
                       \/ client_disconnect(r)
                       \/ chat_completions(r)
                       \/ chat_drain(r)

\* C12: engine_ready has two values and changes only through the lifecycle:
\* it becomes true once, together with the handle, when the engine
\* construction of startup succeeds, and false only at shutdown; startup never
\* runs again; no handler step (/ping, /, /v1/completions,
\* /v1/chat/completions, the stream generator), on a success or a failure
\* path, changes engine_ready or engine.
C12_ReadinessOnlyThroughLifecycle ==
    /\ [](engine_ready \in BOOLEAN)
    /\ [][/\ (~engine_ready /\ engine_ready') =>
                /\ create_engine_ok
                /\ lifespan_pc = "start" /\ lifespan_pc' = "yielded"
                /\ engine' = Engine
          /\ (engine_ready /\ ~engine_ready') =>
                /\ lifespan_shutdown
                /\ lifespan_pc = "yielded" /\ lifespan_pc' = "exited"
          /\ (engine' # engine) => (create_engine_ok \/ lifespan_shutdown)
          /\ (lifespan_pc' = "start") => (lifespan_pc = "start")
          /\ HandlerStep => UNCHANGED <<engine, engine_ready>>]_vars

\* readiness went up and down again while handlers ran on success and on
\* failure paths and the probe was answered
C12_Witness ==
    /\ lifespan_pc = "exited" /\ ~engine_ready
    /\ ping.status_code = 503
    /\ pc[1] = "failed" /\ response[1].status_code = 500
    /\ IsStream(2) /\ local[2].closed_by = "error"

\* the lifespan is over: shutdown has run, or startup failed and shutdown
\* has nothing left to run
LifespanOver == lifespan_pc \in {"exited", "raised"}

\* C13: once shutdown has run, with or without generations in flight, and
\* likewise when startup had not succeeded, the engine handle is None and
\* engine_ready is false; every later GET /ping is answered 503 and every
\* later generation request that passes its request model is rejected 503
\* ServiceUnavailable without a job; shutdown is possible whatever is in
\* flight and leaves jobs, requests, responses and frames as they are.
C13_ShutdownReleasesEngine ==
    /\ [](LifespanOver => (engine = None /\ ~engine_ready))
    /\ []((lifespan_pc = "yielded") => ENABLED lifespan_shutdown)
    /\ [][/\ (LifespanOver /\ health_check) =>
                ping' = [status_code |-> 503,
                         content |-> [status |-> "initializing"]]
          /\ \A r \in Reqs :
                (/\ LifespanOver
                 /\ pc[r] = "idle" /\ pc'[r] # "idle"
                 /\ response'[r] # RequestValidationError) =>
                    /\ pc'[r] = "rejected"
                    /\ response'[r].status_code = 503
                    /\ response'[r].content.detail.error = "ServiceUnavailable"
                    /\ jobs' = jobs
          /\ lifespan_shutdown =>
                UNCHANGED <<jobs, pc, req, local, response, frames>>]_vars

\* shutdown has run while the generation of request 1, entered while ready,
\* is still in flight; the probe and request 2 got 503
C13_Witness ==
    /\ lifespan_pc = "exited"
    /\ pc[1] = "drain" /\ local[1].entry_ready
    /\ jobs[local[1].results].status = "running"
    /\ ping.status_code = 503
    /\ pc[2] = "rejected" /\ response[2].status_code = 503

\* the number of whitespace-separated words of a text: the pieces that are
\* not whitespace and start the text or follow whitespace
WordCount(text) ==
    Cardinality({ i \in 1..Len(text) :
                    /\ text[i] \notin Whitespace
                    /\ (i = 1 \/ text[i - 1] \in Whitespace) })

\* the usage numbers of a buffered success response
Usage(r) ==
    IF req[r].route = "chat" THEN response[r].content.usage
    ELSE [prompt_tokens |-> response[r].content.prompt_tokens,
          completion_tokens |-> response[r].content.completion_tokens,
          total_tokens |-> response[r].content.total_tokens]

\* C14: every successful buffered response, on either route, has
\* total_tokens = prompt_tokens + completion_tokens; its prompt_tokens is the
\* number of prompt token ids the engine reported when it reported them, and
\* the number of whitespace-separated words of the prompt given to the engine
\* when it reported none.
C14_TotalIsSum ==
    \A r \in Reqs :
        (pc[r] = "buffered_complete") =>
            LET reported == local[r].final_output.prompt_token_ids
            IN /\ Usage(r).total_tokens
                    = Usage(r).prompt_tokens + Usage(r).completion_tokens
               /\ (reported # -1) => Usage(r).prompt_tokens = reported
               /\ (reported = -1) =>
                     Usage(r).prompt_tokens
                        = WordCount(jobs[local[r].results].prompt)

\* a completion answered with the word-count fallback and a chat completion
\* answered with the engine's count
C14_Witness ==
    /\ pc[1] = "buffered_complete" /\ req[1].route = "completions"
    /\ local[1].final_output.prompt_token_ids = -1
    /\ response[1].content.prompt_tokens = 2
    /\ response[1].content.total_tokens > 2
    /\ pc[2] = "buffered_complete" /\ req[2].route = "chat"
    /\ local[2].final_output.prompt_token_ids # -1

\* the label the fallback format puts before a message of each role
FallbackLabel ==
    [system |-> "System:", user |-> "Human:", assistant |-> "Assistant:"]

\* the fallback text of a conversation, built message by message from the
\* left: label, a space, the content and a blank line for each message, then
\* "Assistant: "
ExpectedFallback(messages) ==
    LET upto[n \in 0..Len(messages)] ==
            IF n = 0 THEN << >>
            ELSE upto[n - 1] \o <<FallbackLabel[messages[n].role], " ">>
                 \o messages[n].content \o <<"\n\n">>
    IN upto[Len(messages)] \o <<"Assistant:", " ">>

\* conversations of one to four messages with every role
Conversations ==
    { UserHi, SystemUserHi,
      SystemUserHi \o << [role |-> "assistant", content |-> <<"hello">>],
                         [role |-> "user", content |-> <<"tell", " ", "me">>] >> }

AnsweredBuffered(r) == pc[r] \in {"drain", "buffered_complete"}

\* request r is being or has been answered as an SSE stream
AnsweredStreamed(r) ==
    /\ pc[r] \in {"stream_pending", "streaming", "streaming_closed"}
    /\ response[r].status_code = 200
    /\ response[r].content = [media_type |-> "text/event-stream"]

\* C16: on both generation routes the stream flag of the request selects the
\* encoding: a request with stream = true that is answered with generated
\* output is answered as an SSE stream and never in the buffered way, and a
\* request with stream = false is answered in the buffered way and never as
\* a stream.
C16_StreamFlagSelectsEncoding ==
    \A r \in Reqs :
        (Entered(r) /\ req[r].route \in {"completions", "chat"}) =>
            /\ AnsweredBuffered(r) => ~req[r].body.stream
            /\ AnsweredStreamed(r) => req[r].body.stream

\* text, finish_reason and completion token count of a buffered success
\* response
Answer(r) ==
    IF req[r].route = "chat"
    THEN [text |-> response[r].content.choices[1].message.content,
          finish_reason |-> response[r].content.choices[1].finish_reason,
          completion_tokens |-> response[r].content.usage.completion_tokens]
    ELSE [text |-> response[r].content.text,
          finish_reason |-> response[r].content.finish_reason,
          completion_tokens |-> response[r].content.completion_tokens]

\* C17: a buffered (non-streaming) success response is sent only after the
\* engine sequence of its job has ended and been drained to its last unit,
\* and its text, finish_reason and completion token count are those of the
\* last unit the engine produced, for sequences of one unit and of more; as
\* long as the handler drains, and until the sequence has ended, the request
\* has no response.
C17_BufferedFromLastUnit ==
    \A r \in Reqs :
        /\ (pc[r] = "buffered_complete") =>
              LET job == jobs[local[r].results]
                  last == job.produced[Len(job.produced)].outputs[1]
              IN /\ job.status = "done"
                 /\ Len(job.produced) >= 1
                 /\ local[r].consumed = Len(job.produced)
                 /\ Answer(r).text = last.text
                 /\ Answer(r).finish_reason = last.finish_reason
                 /\ Answer(r).completion_tokens = last.token_ids
        /\ (pc[r] = "drain") => response[r] = NoResponse
        /\ (pc[r] \in {"buffered_complete", "failed"}
                /\ local[r].results # NoJob) =>
              /\ jobs[local[r].results].status \in {"done", "raised"}
              /\ local[r].consumed = Len(jobs[local[r].results].produced)

\* a completion answered from the last of MaxUnits units and a chat
\* completion answered from a single unit
C17_Witness ==
    /\ pc[1] = "buffered_complete" /\ req[1].route = "completions"
    /\ Len(jobs[local[1].results].produced) = MaxUnits
    /\ response[1].content.completion_tokens = MaxUnits
    /\ pc[2] = "buffered_complete" /\ req[2].route = "chat"
    /\ Len(jobs[local[2].results].produced) = 1

\* the steps of the per-request state machine: from received (idle) to
\* rejected, failed or dispatched (drain, or stream_pending and streaming),
\* and from dispatched to exactly one terminal state
MachineStep(from, to) ==
    \/ to = from
    \/ from = "idle" /\ to \in {"rejected", "failed", "drain", "stream_pending"}
    \/ from = "drain" /\ to \in {"buffered_complete", "failed"}
    \/ from = "stream_pending" /\ to \in {"streaming", "streaming_closed"}
    \/ from = "streaming" /\ to = "streaming_closed"

\* request r passed its request model and the entry test of its handler
PassedChecks(r) ==
    /\ Entered(r)
    /\ local[r].entry_ready
    /\ IF req[r].route = "chat"
       THEN ChatCompletionRequestValid(req[r].body)
       ELSE GenerationRequestValid(req[r].body)

\* C18: every request moves only along the per-request state machine; it is
\* dispatched (draining, streaming or holding an engine job) only after it
\* passed validation and the engine-ready test; once in one of the terminal
\* states rejected, failed, buffered_complete, streaming_closed it stays
\* there with the response it has; and, every engine sequence being finite,
\* every request received eventually is in a terminal state.
C18_EveryRequestTerminates ==
    /\ [][\A r \in Reqs :
            /\ MachineStep(pc[r], pc'[r])
            /\ (pc[r] \in Terminal) =>
                  (pc'[r] = pc[r] /\ response'[r] = response[r]
                   /\ frames'[r] = frames[r])]_vars
    /\ [](\A r \in Reqs :
            (\/ pc[r] \in {"drain", "stream_pending", "streaming",
                           "buffered_complete", "streaming_closed"}
             \/ local[r].results # NoJob) => PassedChecks(r))
    /\ \A r \in Reqs : (pc[r] # "idle") ~> (pc[r] \in Terminal)

\* a request failed by its engine job and a stream closed after [DONE]
C18_Witness ==
    /\ pc[1] = "failed" /\ local[1].results # NoJob
    /\ pc[2] = "streaming_closed" /\ local[2].closed_by = "done"

\* request r is answered in the buffered way and its handler has called
\* engine.generate
SubmittedAtEntry(r) ==
    /\ Entered(r)
    /\ ~IsStream(r)
    /\ local[r].results # NoJob

\* C19: in every state a handler can observe, engine_ready true implies that
\* the engine handle is not None (the two are set together at startup and
\* cleared together at shutdown, so a handle exists exactly while the flag is
\* true), and a handler that passed the entry test and called
\* engine.generate at that point called it on the engine, not on None.
C19_ReadyImpliesEngine ==
    /\ engine_ready => engine # None
    /\ (engine # None) => (engine = Engine /\ engine_ready)
    /\ \A r \in Reqs :
          SubmittedAtEntry(r) =>
              /\ local[r].entry_ready
              /\ jobs[local[r].results].handle = Engine

\* the flag is true with the engine present while a chat request and a
\* buffered completion request hold the jobs they submitted at entry
C19_Witness ==
    /\ engine_ready /\ engine = Engine
    /\ SubmittedAtEntry(1) /\ req[1].route = "chat" /\ pc[1] = "drain"
    /\ SubmittedAtEntry(2) /\ req[2].route = "completions" /\ pc[2] = "drain"

\* C20: a streaming completion request holds no engine job when its handler
\* returns; the job is submitted by the stream generator, later; whenever
\* shutdown comes in between, the generator submits nothing and closes the
\* stream with the error frame; so every job of a streaming request was
\* submitted to the engine while it was there and while engine_ready was
\* true.
C20_LazySubmitNeverAfterShutdown ==
    /\ [](\A r \in Reqs :
            IsStream(r) =>
                /\ (pc[r] = "stream_pending") =>
                      /\ local[r].results = NoJob
                      /\ local[r].request_id \notin DOMAIN jobs
                /\ (local[r].results # NoJob) =>
                      /\ jobs[local[r].results].handle = Engine
                      /\ jobs[local[r].results].ready_at_submit)
    /\ [][\A r \in Reqs :
            (stream_completion_start(r) /\ (engine = None \/ ~engine_ready)) =>
                /\ jobs' = jobs
                /\ local'[r].results = NoJob
                /\ pc'[r] = "streaming_closed"
                /\ frames'[r] = << ErrorFrame(NoneTypeError) >>]_vars

\* shutdown came between the handler's return and the start of the generator
\* of request 1, which submitted nothing; request 2 submitted its job from
\* the generator before the shutdown
C20_Witness ==
    /\ lifespan_pc = "exited"
    /\ IsStream(1) /\ pc[1] = "streaming_closed"
    /\ local[1].closed_by = "error" /\ local[1].results = NoJob
    /\ local[1].request_id \notin DOMAIN jobs
    /\ IsStream(2) /\ local[2].results # NoJob
    /\ jobs[local[2].results].status = "running"

\* the job of request r completed normally without producing any unit, and
\* the request has been answered or its stream closed
EndedEmpty(r) ==
    /\ local[r].results # NoJob
    /\ jobs[local[r].results].status = "done"
    /\ jobs[local[r].results].produced = << >>
    /\ pc[r] \in Terminal
    /\ local[r].closed_by # "cancelled"

\* text ends with the words of tail
EndsWith(text, tail) ==
    /\ Len(text) >= Len(tail)
    /\ SubSeq(text, Len(text) - Len(tail) + 1, Len(text)) = tail

\* C21: when the engine sequence of a request completes normally without any
\* unit, a non-streaming request on either route gets no success body but a
\* 500 error envelope whose detail reports that no output was generated and
\* whose request_id is the id of the job that produced nothing, and a
\* streaming request gets the [DONE] frame and nothing else.
C21_EmptySequence ==
    \A r \in Reqs :
        EndedEmpty(r) =>
            IF IsStream(r)
            THEN frames[r] = << DoneFrame >>
            ELSE /\ pc[r] = "failed"
                 /\ response[r].status_code = 500
                 /\ EndsWith(Envelope(r).detail,
                             <<"No", " ", "output", " ", "generated">>)
                 /\ Envelope(r).request_id = local[r].results

====
